---- MODULE Spec2Model ----
(***************************************************************************)
(* State-machine model of src/src/index.ts: an express server with four    *)
(* request handlers (POST /api/contact, POST /create-checkout-session,     *)
(* GET /verify-payment, POST /send-receipt) that call an SMTP transport    *)
(* (nodemailer) and a payment gateway (stripe).                            *)
(*                                                                         *)
(* Conventions                                                             *)
(*  - A JavaScript value is a record [type, val]; a string's val is the    *)
(*    sequence of its characters (email addresses) or of its words (every  *)
(*    other text: error messages, names, identifiers).                     *)
(*  - A JavaScript number with a fractional part is kept in tenths: price  *)
(*    2.5 is price10 = 25, the rate 7.9 is 79. Unit amounts sent to the    *)
(*    gateway are the integers Math.round produces.                        *)
(*  - Every handler runs from one await to the next in one action; an      *)
(*    external call is logged in calls[r] when it is started, with state   *)
(*    "pending", and is marked "ok"/"failed" by the action that resumes    *)
(*    the handler after the await.                                         *)
(***************************************************************************)
EXTENDS Integers, Sequences, FiniteSets, TLC

VARIABLES
    env,    \* process.env: EMAIL_USER, EMAIL_PASS, ADMIN_EMAIL (fixed at startup)
    pc,     \* pc[r]: where the handler of request r is suspended
    req,    \* req[r]: route and body/query of request r
    calls,  \* calls[r]: the external calls request r has started, in order
    resp    \* resp[r]: the HTTP responses written for request r, in order

vars == <<env, pc, req, calls, resp>>

----------------------------------------------------------------------------
(* Bounds of the model *)

\* longest email address (in characters) a contact request carries
MaxEmailLen == 5

\* longest cart (items.length) a checkout request carries
MaxItems == 2

----------------------------------------------------------------------------
(* JavaScript values *)

Undef == [type |-> "undefined", val |-> <<>>]

Str(s) == [type |-> "string", val |-> s]

\* a value that is neither undefined nor a string (a repeated query parameter)
Arr(s) == [type |-> "array", val |-> s]

\* ToBoolean: undefined and "" are falsy, every array is truthy
Truthy(v) ==
    CASE v.type = "undefined" -> FALSE
      [] v.type = "string" -> v.val # <<>>
      [] OTHER -> TRUE

\* a || b
OrElse(a, b) == IF Truthy(a) THEN a ELSE b

\* String.prototype.includes on texts kept as word sequences
Includes(text, pat) ==
    \E i \in 0..(Len(text) - Len(pat)) :
        \A k \in 1..Len(pat) : text[i + k] = pat[k]

\* all sequences over S of length at most n
SeqsUpTo(S, n) == UNION {[1..k -> S] : k \in 0..n}

\* a thrown value: an Error with a message, or something that is no Error
Err(msg) == [isError |-> TRUE, message |-> msg]

NonError == [isError |-> FALSE, message |-> <<>>]

\* the result of an awaited call that did not throw
Ok == [isError |-> FALSE, message |-> <<"ok">>]

----------------------------------------------------------------------------
(* Requests, external calls, responses *)

NoArg == [none |-> TRUE]

NoSession == [id |-> <<>>, url |-> <<>>, payment_status |-> <<>>]

\* an external call of a handler: the operation, its argument, how it ended
\* ("pending", "ok", "failed"), once it failed the value it threw, and for a
\* gateway call that succeeded the session the gateway answered with
Call(op, arg, state) ==
    [op |-> op, arg |-> arg, state |-> state, error |-> Ok, answer |-> NoSession]

\* res.status(status).json({success, error, message, orderId, ...session})
Json(status, success, error, message, orderId, session) ==
    [status |-> status, success |-> success, error |-> error,
     message |-> message, orderId |-> orderId, session |-> session]

\* res.status(status).json({success: false, error})
JsonFailure(status, error) ==
    Json(status, "false", error, <<>>, Undef, NoSession)

\* res.status(status).json({error})
JsonError(status, error) ==
    Json(status, "absent", error, <<>>, Undef, NoSession)

\* what a handler does between two awaits: the responses it writes, the
\* external calls it starts, and where it suspends next
Step(send, start, next) == [send |-> send, start |-> start, pc |-> next]

\* the awaited call (the last one started) ends with the given outcome
Settle(cs, outcome) ==
    IF cs = <<>> THEN cs
    ELSE [cs EXCEPT ![Len(cs)].state = IF outcome = Ok THEN "ok" ELSE "failed",
                    ![Len(cs)].error = outcome]

\* the awaited gateway call ends with the given outcome and, when it
\* succeeded, with the session the gateway answered with
SettleAnswered(cs, outcome, session) ==
    IF cs = <<>> \/ outcome # Ok THEN Settle(cs, outcome)
    ELSE [Settle(cs, outcome) EXCEPT ![Len(cs)].answer = session]

\* const errorMessage = error instanceof Error ? error.message : 'Unknown error occurred'
errorMessage(error) ==
    IF error.isError THEN error.message ELSE <<"Unknown error occurred">>

----------------------------------------------------------------------------
(* Mail transport *)

\* getTransporter(): nodemailer.createTransport(config), synchronous
getTransporter == Call("createTransport", NoArg, "ok")

\* transporter.verify(), awaited
verify == Call("verify", NoArg, "pending")

\* transporter.sendMail(options), awaited
sendMail(options, to) ==
    Call("sendMail", [options |-> options, to |-> to], "pending")

\* !process.env.EMAIL_USER || !process.env.EMAIL_PASS
EmailConfigMissing == ~Truthy(env.EMAIL_USER) \/ ~Truthy(env.EMAIL_PASS)

\* process.env.ADMIN_EMAIL || process.env.EMAIL_USER
adminEmail == OrElse(env.ADMIN_EMAIL, env.EMAIL_USER)

----------------------------------------------------------------------------
(* POST /api/contact *)

\* [^\s@]: any character but whitespace and @
NotSpaceAt(c) == c # " " /\ c # "@"

\* the test with the "." of the pattern left unescaped (any character)
emailRegexTestUnescapedDot(email) ==
    \E i \in 1..Len(email), j \in 1..Len(email) :
        /\ email[i] = "@"
        /\ 1 < i /\ i + 1 < j /\ j < Len(email)
        /\ \A k \in 1..(i - 1) : NotSpaceAt(email[k])
        /\ \A k \in (i + 1)..(j - 1) : NotSpaceAt(email[k])
        /\ \A k \in (j + 1)..Len(email) : NotSpaceAt(email[k])

\* /^[^\s@]+@[^\s@]+\.[^\s@]+$/.test(email), email a character sequence:
\* some "@" at i and some "." at j split it into three non-empty runs of
\* [^\s@] characters
emailRegexTest(email) ==
    \E i \in 1..Len(email), j \in 1..Len(email) :
        /\ email[i] = "@"
        /\ email[j] = "."
        /\ 1 < i /\ i + 1 < j /\ j < Len(email)
        /\ \A k \in 1..(i - 1) : NotSpaceAt(email[k])
        /\ \A k \in (i + 1)..(j - 1) : NotSpaceAt(email[k])
        /\ \A k \in (j + 1)..Len(email) : NotSpaceAt(email[k])

\* !name || !email || !subject || !message
ContactFieldMissing(body) ==
    \/ ~Truthy(body.name)
    \/ ~Truthy(body.email)
    \/ ~Truthy(body.subject)
    \/ ~Truthy(body.message)

\* the handler from its entry to the await of transporter.verify()
ContactEntry(body) ==
    IF ContactFieldMissing(body)
    THEN Step(<<JsonFailure(400, <<"All fields are required">>)>>, <<>>, "done")
    ELSE IF ~emailRegexTest(body.email.val)
    THEN Step(<<JsonFailure(400, <<"Invalid email address">>)>>, <<>>, "done")
    ELSE IF EmailConfigMissing
    THEN Step(<<JsonFailure(500, <<"Email service is not configured">>)>>, <<>>, "done")
    ELSE Step(<<>>, <<getTransporter, verify>>, "awaitVerify")

\* the user-facing message the outer catch block picks
userErrorMessage(msg) ==
    IF Includes(msg, <<"Invalid", "login">>) \/ Includes(msg, <<"BadCredentials">>)
    THEN <<"Email authentication failed.", "Please contact administrator.">>
    ELSE IF Includes(msg, <<"EAUTH">>)
    THEN <<"Email authentication failed.", "Please check your email configuration.">>
    ELSE IF Includes(msg, <<"ECONNREFUSED">>)
    THEN <<"Unable to connect to email server.", "Please try again later.">>
    ELSE <<"Failed to send message.", "Please try again later.">>

\* a catch block that sends the admin mail again
ContactCatchRetrying(error) ==
    Step(<<>>, <<sendMail("adminMailOptions", adminEmail)>>, "awaitAdminMail")

\* the outer catch block of the handler
ContactCatch(error) ==
    Step(<<JsonFailure(500, userErrorMessage(errorMessage(error)))>>, <<>>, "done")

\* verify() without its own try: the failure reaches the outer catch block
ContactVerifyCatchOuter(verifyError) ==
    ContactCatch(verifyError)

\* the catch block of the inner try around transporter.verify()
ContactVerifyCatch(verifyError) ==
    Step(<<JsonFailure(500, <<"Email service temporarily unavailable.",
                              "Please try again later.">>)>>, <<>>, "done")

\* resumption after await transporter.verify()
ContactAfterVerify(body, outcome) ==
    IF outcome # Ok
    THEN ContactVerifyCatch(outcome)
    ELSE Step(<<>>, <<sendMail("adminMailOptions", adminEmail)>>, "awaitAdminMail")

\* userMailOptions kept in one module-level variable: every contact request
\* overwrites it, and a handler resumed later sends what the last one wrote
ContactAfterAdminMailSharedOptions(body, outcome) ==
    IF outcome # Ok
    THEN ContactCatch(outcome)
    ELSE LET writers == {q \in DOMAIN req : req[q].route = "/api/contact"
                                            /\ pc[q] \notin {"idle", "awaitVerify"}
                                            /\ calls[q] # <<>>}
             last == CHOOSE q \in writers : \A p \in writers : p <= q
         IN  Step(<<>>,
                  <<sendMail("userMailOptions",
                             IF writers = {} THEN body.email ELSE req[last].input.email)>>,
                  "awaitUserMail")

\* the resumption with the acknowledgment addressed to the admin again
ContactAfterAdminMailSameRecipient(body, outcome) ==
    IF outcome # Ok
    THEN ContactCatch(outcome)
    ELSE Step(<<>>, <<sendMail("userMailOptions", adminEmail)>>, "awaitUserMail")

\* success answered as soon as the user mail is handed over, its failure
\* still reaching the catch block
ContactAfterAdminMailRespondingEarly(body, outcome) ==
    IF outcome # Ok
    THEN ContactCatch(outcome)
    ELSE Step(<<Json(200, "true", <<>>,
                     <<"Message sent successfully!",
                       "You should receive a confirmation email shortly.">>,
                     Undef, NoSession)>>,
              <<sendMail("userMailOptions", body.email)>>, "awaitUserMail")

\* resumption after await transporter.sendMail(adminMailOptions)
ContactAfterAdminMail(body, outcome) ==
    IF outcome # Ok
    THEN ContactCatch(outcome)
    ELSE Step(<<>>, <<sendMail("userMailOptions", body.email)>>, "awaitUserMail")

\* resumption after await transporter.sendMail(userMailOptions)
ContactAfterUserMail(body, outcome) ==
    IF outcome # Ok
    THEN ContactCatch(outcome)
    ELSE Step(<<Json(200, "true", <<>>,
                     <<"Message sent successfully!",
                       "You should receive a confirmation email shortly.">>,
                     Undef, NoSession)>>, <<>>, "done")

----------------------------------------------------------------------------
(* POST /create-checkout-session *)

\* Math.floor in the place of Math.round
MathFloor(x10) == x10 \div 10

\* Math.round of a number kept in tenths: the nearest integer, a half
\* rounding towards +Infinity
MathRound(x10) == (x10 + 5) \div 10

supportedCurrencies == <<"USD", "GBP", "EUR", "CAD", "AUD", "NGN">>

\* currency || 'USD': no test against the supported list
stripeCurrencyAnyGiven(currency) ==
    IF Truthy(currency) THEN currency ELSE Str(<<"USD">>)

\* supportedCurrencies.includes(currency) ? currency : 'USD'
stripeCurrency(currency) ==
    IF \E i \in 1..Len(supportedCurrencies) : currency = Str(<<supportedCurrencies[i]>>)
    THEN currency
    ELSE Str(<<"USD">>)

\* the shipping rate table, in tenths: {USD: 10, GBP: 7.9, NGN: 15000}
shippingRates == [USD |-> 100, GBP |-> 79, NGN |-> 150000]

\* shippingRates[stripeCurrency as keyof typeof shippingRates] || 10, in tenths
shippingAmount(cur) ==
    IF cur.val[1] \in DOMAIN shippingRates /\ shippingRates[cur.val[1]] # 0
    THEN shippingRates[cur.val[1]]
    ELSE 100

\* one element of line_items
LineItem(cur, name, unit_amount, quantity) ==
    [currency |-> cur, name |-> name, unit_amount |-> unit_amount, quantity |-> quantity]

\* items.map((item) => ({price_data: {...}, quantity: item.quantity}))
mapItems(items, cur, mult) ==
    [i \in 1..Len(items) |->
        LineItem(cur, items[i].title, MathRound(items[i].price10 * mult), items[i].quantity)]

\* the pushed shipping line
shippingItem(cur, mult) ==
    LineItem(cur, "Shipping", MathRound(shippingAmount(cur) * mult), 1)

\* the shipping line put first (unshift for push)
lineItemsShippingFirst(items, cur, mult) ==
    <<shippingItem(cur, mult)>> \o mapItems(items, cur, mult)

\* lineItems after lineItems.push({... 'Shipping' ...})
lineItems(items, cur, mult) ==
    Append(mapItems(items, cur, mult), shippingItem(cur, mult))

\* stripe.checkout.sessions.create({...}), awaited
sessionsCreate(body) ==
    Call("checkout.sessions.create",
         [line_items |-> lineItems(body.items.val, stripeCurrency(body.currency),
                                   body.currencyMultiplier),
          customer_email |-> body.customerEmail,
          items_count |-> Len(body.items.val),
          original_currency |-> body.currency],
         "pending")

\* the catch block of the handler
CheckoutCatch(error) ==
    Step(<<JsonError(500, errorMessage(error))>>, <<>>, "done")

\* the TypeError of items.map when items is no array
ItemsMapTypeError == Err(<<"Cannot", "read", "properties", "of", "undefined">>)

\* the handler from its entry to the await of sessions.create
CheckoutEntry(body) ==
    IF body.items.type # "array"
    THEN CheckoutCatch(ItemsMapTypeError)
    ELSE Step(<<>>, <<sessionsCreate(body)>>, "awaitCreate")

\* resumption after await stripe.checkout.sessions.create(...)
CheckoutAfterCreate(body, outcome, session) ==
    IF outcome # Ok
    THEN CheckoutCatch(outcome)
    ELSE Step(<<Json(200, "absent", <<>>, <<>>, Undef,
                     [id |-> session.id, url |-> session.url, payment_status |-> <<>>])>>,
              <<>>, "done")

----------------------------------------------------------------------------
(* GET /verify-payment *)

\* stripe.checkout.sessions.retrieve(session_id, {expand: ['payment_intent']}), awaited
sessionsRetrieve(session_id) ==
    Call("checkout.sessions.retrieve", [session_id |-> session_id], "pending")

\* the catch block of the handler
VerifyCatch(error) ==
    Step(<<JsonError(500, errorMessage(error))>>, <<>>, "done")

\* the entry with the typeof test left out
VerifyEntryNoTypeTest(query) ==
    IF ~Truthy(query.session_id)
    THEN Step(<<JsonError(400, <<"Session ID is required">>)>>, <<>>, "done")
    ELSE Step(<<>>, <<sessionsRetrieve(query.session_id)>>, "awaitRetrieve")

\* the handler from its entry to the await of sessions.retrieve
VerifyEntry(query) ==
    IF ~Truthy(query.session_id) \/ query.session_id.type # "string"
    THEN Step(<<JsonError(400, <<"Session ID is required">>)>>, <<>>, "done")
    ELSE Step(<<>>, <<sessionsRetrieve(query.session_id)>>, "awaitRetrieve")

\* resumption after await stripe.checkout.sessions.retrieve(...)
VerifyAfterRetrieve(query, outcome, session) ==
    IF outcome # Ok
    THEN VerifyCatch(outcome)
    ELSE Step(<<Json(200, "absent", <<>>, <<>>, Undef,
                     [id |-> session.id, url |-> <<>>,
                      payment_status |-> session.payment_status])>>,
              <<>>, "done")

----------------------------------------------------------------------------
(* POST /send-receipt *)

\* a catch block that answers with a fixed message
ReceiptCatchGeneric(error) ==
    Step(<<JsonError(500, <<"Failed to send message.", "Please try again later.">>)>>,
         <<>>, "done")

\* the catch block of the handler
ReceiptCatch(error) ==
    Step(<<JsonError(500, errorMessage(error))>>, <<>>, "done")

\* the entry with the credentials check left out
ReceiptEntryNoConfigCheck(body) ==
    Step(<<>>,
         <<getTransporter, sendMail("customerMailOptions", body.customerEmail)>>,
         "awaitCustomerMail")

\* the handler from its entry to the await of sendMail(customerMailOptions)
ReceiptEntry(body) ==
    IF EmailConfigMissing
    THEN ReceiptCatch(Err(<<"Email configuration is missing">>))
    ELSE Step(<<>>,
              <<getTransporter, sendMail("customerMailOptions", body.customerEmail)>>,
              "awaitCustomerMail")

\* the resumption with the failure of the first send swallowed
ReceiptAfterCustomerMailIgnoringFailure(body, outcome) ==
    Step(<<>>, <<sendMail("adminMailOptions", adminEmail)>>, "awaitReceiptAdminMail")

\* resumption after await transporter.sendMail(customerMailOptions)
ReceiptAfterCustomerMail(body, outcome) ==
    IF outcome # Ok
    THEN ReceiptCatch(outcome)
    ELSE Step(<<>>, <<sendMail("adminMailOptions", adminEmail)>>, "awaitReceiptAdminMail")

\* resumption after await transporter.sendMail(adminMailOptions)
ReceiptAfterAdminMail(body, outcome) ==
    IF outcome # Ok
    THEN ReceiptCatch(outcome)
    ELSE Step(<<Json(200, "true", <<>>, <<"Receipts sent successfully">>,
                     body.orderId, NoSession)>>, <<>>, "done")

----------------------------------------------------------------------------
(* Inputs: what clients send and what the external services answer *)

EmailChars == {"a", "@", ".", " "}

FieldValues == {Undef, Str(<<>>), Str(<<"x">>)}

ContactBodies ==
    [name : FieldValues,
     email : {Undef} \cup {Str(e) : e \in SeqsUpTo(EmailChars, MaxEmailLen)},
     subject : FieldValues,
     message : FieldValues]

\* prices in tenths: 0.5, 2.5, 100
CartItems == [title : {"Painting A"}, price10 : {5, 25, 1000}, quantity : {1, 2}]

Currencies ==
    {Undef} \cup {Str(<<c>>) : c \in {"USD", "GBP", "EUR", "CAD", "AUD", "NGN", "JPY", "usd"}}

CheckoutBodies ==
    [items : {Undef} \cup {Arr(s) : s \in SeqsUpTo(CartItems, MaxItems)},
     currency : Currencies,
     currencyMultiplier : {1, 5, 100},
     customerEmail : {Str(<<"c@x.y">>)}]

VerifyQueries ==
    [session_id : {Undef, Str(<<>>), Str(<<"cs_1">>), Str(<<"cs_2">>),
                   Arr(<<"cs_1", "cs_2">>), Arr(<<>>)}]

ReceiptBodies ==
    [customerEmail : {Undef, Str(<<"c@x.y">>)},
     orderId : {Undef, Str(<<"order-1">>), Str(<<"order-2">>)}]

\* what transporter.verify() and transporter.sendMail() may throw
SmtpErrors ==
    {Err(<<"Invalid", "login:", "535">>), Err(<<"Invalid", "login">>),
     Err(<<"login", "Invalid">>), Err(<<"BadCredentials">>),
     Err(<<"EAUTH">>), Err(<<"EAUTH", "Invalid", "login">>),
     Err(<<"connect", "ECONNREFUSED">>), Err(<<"ECONNREFUSED", "EAUTH">>),
     Err(<<"Greeting", "never", "received">>), NonError}

\* what the payment gateway client may throw
StripeErrors ==
    {Err(<<"No", "such", "checkout.session">>), Err(<<"Invalid", "API", "Key">>),
     NonError}

\* the sessions the payment gateway may answer with
Sessions ==
    [id : {<<"cs_1">>, <<"cs_2">>}, url : {<<"https://pay/cs">>},
     payment_status : {<<"paid">>, <<"unpaid">>}]

EnvValues ==
    [EMAIL_USER : {Undef, Str(<<>>), Str(<<"user@host">>)},
     EMAIL_PASS : {Undef, Str(<<"secret">>)},
     ADMIN_EMAIL : {Undef, Str(<<"admin@host">>)}]

----------------------------------------------------------------------------
(* The state machine *)

\* request r arrives on a route and its handler runs to its first await
Begin(r, route, input, step) ==
    /\ req' = [req EXCEPT ![r] = [route |-> route, input |-> input]]
    /\ pc' = [pc EXCEPT ![r] = step.pc]
    /\ calls' = [calls EXCEPT ![r] = step.start]
    /\ resp' = [resp EXCEPT ![r] = step.send]
    /\ UNCHANGED env

\* one transport shared by all requests: the outcome handed to request r
\* also ends the call every other request awaits on it
ResumeSharedTransport(r, outcome, step) ==
    /\ pc' = [pc EXCEPT ![r] = step.pc]
    /\ calls' = [q \in DOMAIN calls |->
                   IF q = r THEN Settle(calls[r], outcome) \o step.start
                   ELSE IF pc[q] = pc[r] THEN Settle(calls[q], outcome)
                   ELSE calls[q]]
    /\ resp' = [resp EXCEPT ![r] = resp[r] \o step.send]
    /\ UNCHANGED <<env, req>>

\* the call request r awaits ends with outcome and its handler runs on
Resume(r, outcome, step) ==
    /\ pc' = [pc EXCEPT ![r] = step.pc]
    /\ calls' = [calls EXCEPT ![r] = Settle(calls[r], outcome) \o step.start]
    /\ resp' = [resp EXCEPT ![r] = resp[r] \o step.send]
    /\ UNCHANGED <<env, req>>

\* the gateway call request r awaits ends and its handler runs on
ResumeAnswered(r, outcome, session, step) ==
    /\ pc' = [pc EXCEPT ![r] = step.pc]
    /\ calls' = [calls EXCEPT ![r] = SettleAnswered(calls[r], outcome, session) \o step.start]
    /\ resp' = [resp EXCEPT ![r] = resp[r] \o step.send]
    /\ UNCHANGED <<env, req>>

ContactRequest(r) ==
    /\ pc[r] = "idle"
    /\ \E body \in ContactBodies : Begin(r, "/api/contact", body, ContactEntry(body))

ContactVerifyDone(r) ==
    /\ pc[r] = "awaitVerify"
    /\ \E outcome \in {Ok} \cup SmtpErrors :
           Resume(r, outcome, ContactAfterVerify(req[r].input, outcome))

ContactAdminMailDone(r) ==
    /\ pc[r] = "awaitAdminMail"
    /\ \E outcome \in {Ok} \cup SmtpErrors :
           Resume(r, outcome, ContactAfterAdminMail(req[r].input, outcome))

ContactUserMailDone(r) ==
    /\ pc[r] = "awaitUserMail"
    /\ \E outcome \in {Ok} \cup SmtpErrors :
           Resume(r, outcome, ContactAfterUserMail(req[r].input, outcome))

CheckoutRequest(r) ==
    /\ pc[r] = "idle"
    /\ \E body \in CheckoutBodies :
           Begin(r, "/create-checkout-session", body, CheckoutEntry(body))

CheckoutCreateDone(r) ==
    /\ pc[r] = "awaitCreate"
    /\ \E outcome \in {Ok} \cup StripeErrors, session \in Sessions :
           ResumeAnswered(r, outcome, session,
                          CheckoutAfterCreate(req[r].input, outcome, session))

VerifyRequest(r) ==
    /\ pc[r] = "idle"
    /\ \E query \in VerifyQueries : Begin(r, "/verify-payment", query, VerifyEntry(query))

VerifyRetrieveDone(r) ==
    /\ pc[r] = "awaitRetrieve"
    /\ \E outcome \in {Ok} \cup StripeErrors, session \in Sessions :
           ResumeAnswered(r, outcome, session,
                          VerifyAfterRetrieve(req[r].input, outcome, session))

ReceiptRequest(r) ==
    /\ pc[r] = "idle"
    /\ \E body \in ReceiptBodies : Begin(r, "/send-receipt", body, ReceiptEntry(body))

ReceiptCustomerMailDone(r) ==
    /\ pc[r] = "awaitCustomerMail"
    /\ \E outcome \in {Ok} \cup SmtpErrors :
           Resume(r, outcome, ReceiptAfterCustomerMail(req[r].input, outcome))

ReceiptAdminMailDone(r) ==
    /\ pc[r] = "awaitReceiptAdminMail"
    /\ \E outcome \in {Ok} \cup SmtpErrors :
           Resume(r, outcome, ReceiptAfterAdminMail(req[r].input, outcome))

NoRequest == [route |-> "none", input |-> NoArg]

\* the requests in flight in the sequential specification
Single == {1}

InitWith(R) ==
    /\ env \in EnvValues
    /\ pc = [r \in R |-> "idle"]
    /\ req = [r \in R |-> NoRequest]
    /\ calls = [r \in R |-> <<>>]
    /\ resp = [r \in R |-> <<>>]

Init == InitWith(Single)

Next ==
    \/ \E r \in DOMAIN pc : ContactRequest(r)
    \/ \E r \in DOMAIN pc : ContactVerifyDone(r)
    \/ \E r \in DOMAIN pc : ContactAdminMailDone(r)
    \/ \E r \in DOMAIN pc : ContactUserMailDone(r)
    \/ \E r \in DOMAIN pc : CheckoutRequest(r)
    \/ \E r \in DOMAIN pc : CheckoutCreateDone(r)
    \/ \E r \in DOMAIN pc : VerifyRequest(r)
    \/ \E r \in DOMAIN pc : VerifyRetrieveDone(r)
    \/ \E r \in DOMAIN pc : ReceiptRequest(r)
    \/ \E r \in DOMAIN pc : ReceiptCustomerMailDone(r)
    \/ \E r \in DOMAIN pc : ReceiptAdminMailDone(r)

Spec == Init /\ [][Next]_vars

----------------------------------------------------------------------------
(* Concurrent requests: several handlers suspended at their awaits at once, *)
(* resumed in any order                                                     *)

\* the most requests in flight together
MaxConcurrent == 2

\* app.post / app.get: the handler of a route, from its entry to its first await
Entry(route, input) ==
    CASE route = "/api/contact" -> ContactEntry(input)
      [] route = "/create-checkout-session" -> CheckoutEntry(input)
      [] route = "/verify-payment" -> VerifyEntry(input)
      [] route = "/send-receipt" -> ReceiptEntry(input)

\* the handler suspended at `at`, resumed with the outcome of the awaited
\* call (and the session answered, for a gateway call)
After(at, input, outcome, session) ==
    CASE at = "awaitVerify" -> ContactAfterVerify(input, outcome)
      [] at = "awaitAdminMail" -> ContactAfterAdminMail(input, outcome)
      [] at = "awaitUserMail" -> ContactAfterUserMail(input, outcome)
      [] at = "awaitCreate" -> CheckoutAfterCreate(input, outcome, session)
      [] at = "awaitRetrieve" -> VerifyAfterRetrieve(input, outcome, session)
      [] at = "awaitCustomerMail" -> ReceiptAfterCustomerMail(input, outcome)
      [] at = "awaitReceiptAdminMail" -> ReceiptAfterAdminMail(input, outcome)

SmtpAwaits ==
    {"awaitVerify", "awaitAdminMail", "awaitUserMail",
     "awaitCustomerMail", "awaitReceiptAdminMail"}

GatewayAwaits == {"awaitCreate", "awaitRetrieve"}

\* the requests sent concurrently: two well-formed contact messages from
\* different senders and one without a name
ConcContactBodies ==
    {[name |-> Str(<<"x">>), email |-> Str(<<"a", "@", "a", ".", "a">>),
      subject |-> Str(<<"x">>), message |-> Str(<<"x">>)],
     [name |-> Str(<<"x">>), email |-> Str(<<".", "@", "a", ".", "a">>),
      subject |-> Str(<<"x">>), message |-> Str(<<"x">>)],
     [name |-> Undef, email |-> Str(<<"a", "@", "a", ".", "a">>),
      subject |-> Str(<<"x">>), message |-> Str(<<"x">>)]}

ConcCheckoutBodies ==
    {[items |-> Arr(<<[title |-> "Painting A", price10 |-> 1000, quantity |-> 1]>>),
      currency |-> Str(<<"NGN">>), currencyMultiplier |-> 1,
      customerEmail |-> Str(<<"c@x.y">>)],
     [items |-> Arr(<<[title |-> "Painting A", price10 |-> 25, quantity |-> 2],
                      [title |-> "Painting A", price10 |-> 5, quantity |-> 1]>>),
      currency |-> Str(<<"JPY">>), currencyMultiplier |-> 100,
      customerEmail |-> Str(<<"c@x.y">>)]}

ConcVerifyQueries ==
    [session_id : {Undef, Str(<<"cs_1">>), Str(<<"cs_2">>)}]

ConcReceiptBodies ==
    {[customerEmail |-> Str(<<"c@x.y">>), orderId |-> Str(<<"order-1">>)],
     [customerEmail |-> Undef, orderId |-> Str(<<"order-2">>)]}

ConcSmtpErrors == {Err(<<"EAUTH">>), Err(<<"Greeting", "never", "received">>)}

ConcStripeErrors == {Err(<<"No", "such", "checkout.session">>)}

ConcSessions ==
    {[id |-> <<"cs_1">>, url |-> <<"https://pay/cs">>, payment_status |-> <<"paid">>],
     [id |-> <<"cs_2">>, url |-> <<"https://pay/cs">>, payment_status |-> <<"unpaid">>]}

ConcContactRequest(r) ==
    /\ pc[r] = "idle"
    /\ \E body \in ConcContactBodies :
           Begin(r, "/api/contact", body, Entry("/api/contact", body))

ConcCheckoutRequest(r) ==
    /\ pc[r] = "idle"
    /\ \E body \in ConcCheckoutBodies :
           Begin(r, "/create-checkout-session", body,
                 Entry("/create-checkout-session", body))

ConcVerifyRequest(r) ==
    /\ pc[r] = "idle"
    /\ \E query \in ConcVerifyQueries :
           Begin(r, "/verify-payment", query, Entry("/verify-payment", query))

ConcReceiptRequest(r) ==
    /\ pc[r] = "idle"
    /\ \E body \in ConcReceiptBodies :
           Begin(r, "/send-receipt", body, Entry("/send-receipt", body))

\* the SMTP call request r awaits ends
ConcSmtpDone(r) ==
    /\ pc[r] \in SmtpAwaits
    /\ \E outcome \in {Ok} \cup ConcSmtpErrors :
           Resume(r, outcome, After(pc[r], req[r].input, outcome, NoSession))

\* the gateway call request r awaits ends
ConcGatewayDone(r) ==
    /\ pc[r] \in GatewayAwaits
    /\ \E outcome \in {Ok} \cup ConcStripeErrors, session \in ConcSessions :
           ResumeAnswered(r, outcome, session,
                          After(pc[r], req[r].input, outcome, session))

InitConc == InitWith(1..MaxConcurrent)

NextConc ==
    \/ \E r \in DOMAIN pc : ConcContactRequest(r)
    \/ \E r \in DOMAIN pc : ConcCheckoutRequest(r)
    \/ \E r \in DOMAIN pc : ConcVerifyRequest(r)
    \/ \E r \in DOMAIN pc : ConcReceiptRequest(r)
    \/ \E r \in DOMAIN pc : ConcSmtpDone(r)
    \/ \E r \in DOMAIN pc : ConcGatewayDone(r)

SpecConc == InitConc /\ [][NextConc]_vars

----------------------------------------------------------------------------
(* Vocabulary of the properties *)

Requests == DOMAIN pc

OnRoute(r, route) == req[r].route = route

\* the calls of request r on operation op, in the order they were started
CallsOf(r, op) == SelectSeq(calls[r], LAMBDA c : c.op = op)

\* the mail options of the sends request r has started, in order
SendsOf(r) == [i \in 1..Len(CallsOf(r, "sendMail")) |-> CallsOf(r, "sendMail")[i].arg.options]

\* the SMTP operations: transport creation, verify, sendMail
SmtpOps == {"createTransport", "verify", "sendMail"}

SomeCallFailed(r) == \E i \in 1..Len(calls[r]) : calls[r][i].state = "failed"

\* a field that is present: a non-empty string
Present(v) == v.type = "string" /\ v.val # <<>>

\* local@domain.tld: no whitespace, exactly one "@" with something before
\* it, and after it a "." that has something on both sides
MatchesLocalAtDomainTld(e) ==
    /\ \A k \in 1..Len(e) : e[k] # " "
    /\ Cardinality({k \in 1..Len(e) : e[k] = "@"}) = 1
    /\ LET at == CHOOSE k \in 1..Len(e) : e[k] = "@"
       IN  at > 1 /\ \E d \in (at + 2)..(Len(e) - 1) : e[d] = "."

\* a contact body with all four fields present and a well-formed email
ValidContact(body) ==
    /\ Present(body.name) /\ Present(body.email)
    /\ Present(body.subject) /\ Present(body.message)
    /\ MatchesLocalAtDomainTld(body.email.val)

MailConfigured == Present(env.EMAIL_USER) /\ Present(env.EMAIL_PASS)

----------------------------------------------------------------------------
(* C1 *)

\* C1 as stated: every valid contact request is answered 200 success:true
\* after exactly two sends, the admin notification then the user
\* acknowledgment. (Fails: missing credentials, a failed verify or a failed
\* send end a valid request with 500.)
C1_ValidContactAlways200 ==
    \A r \in Requests :
        (OnRoute(r, "/api/contact") /\ pc[r] = "done" /\ ValidContact(req[r].input))
        => /\ Len(resp[r]) = 1
           /\ resp[r][1].status = 200 /\ resp[r][1].success = "true"
           /\ SendsOf(r) = <<"adminMailOptions", "userMailOptions">>

\* C1 (amended): a valid contact request, handled with mail credentials
\* configured and with none of its SMTP calls failing, is answered 200
\* success:true after exactly two sends, the admin notification first and the
\* user acknowledgment second; no other contact request is answered 200.
C1_ValidContactSucceeds ==
    \A r \in Requests :
        (OnRoute(r, "/api/contact") /\ pc[r] = "done")
        => /\ (ValidContact(req[r].input) /\ MailConfigured /\ ~SomeCallFailed(r))
              => /\ Len(resp[r]) = 1
                 /\ resp[r][1].status = 200 /\ resp[r][1].success = "true"
                 /\ SendsOf(r) = <<"adminMailOptions", "userMailOptions">>
                 /\ CallsOf(r, "sendMail")[1].arg.to = OrElse(env.ADMIN_EMAIL, env.EMAIL_USER)
                 /\ CallsOf(r, "sendMail")[2].arg.to = req[r].input.email
           /\ (\E i \in 1..Len(resp[r]) : resp[r][i].status = 200)
              => (ValidContact(req[r].input) /\ MailConfigured /\ ~SomeCallFailed(r))
           /\ (ValidContact(req[r].input) /\ (~MailConfigured \/ SomeCallFailed(r)))
              => /\ Len(resp[r]) = 1
                 /\ resp[r][1].status = 500 /\ resp[r][1].success = "false"

\* a valid contact request answered 200 after both sends
C1_Witness ==
    \E r \in Requests :
        /\ OnRoute(r, "/api/contact") /\ pc[r] = "done"
        /\ ValidContact(req[r].input)
        /\ resp[r] # <<>> /\ resp[r][1].status = 200
        /\ Len(CallsOf(r, "sendMail")) = 2

----------------------------------------------------------------------------
(* C2 *)

\* C2: a contact request with a missing or empty field, or with an email
\* that does not match local@domain.tld, is answered 400 success:false and
\* starts no SMTP operation (no transport creation, verify or sendMail).
C2_InvalidContactRejected ==
    \A r \in Requests :
        (OnRoute(r, "/api/contact") /\ ~ValidContact(req[r].input))
        => /\ pc[r] = "done"
           /\ Len(resp[r]) = 1
           /\ resp[r][1].status = 400 /\ resp[r][1].success = "false"
           /\ \A i \in 1..Len(calls[r]) : calls[r][i].op \notin SmtpOps

\* a contact request with all fields present, mail configured, and an email
\* that has an "@" but fails the pattern, rejected with 400
C2_Witness ==
    \E r \in Requests :
        /\ OnRoute(r, "/api/contact") /\ MailConfigured
        /\ Present(req[r].input.name) /\ Present(req[r].input.subject)
        /\ Present(req[r].input.message) /\ Present(req[r].input.email)
        /\ \E k \in 1..Len(req[r].input.email.val) : req[r].input.email.val[k] = "@"
        /\ ~MatchesLocalAtDomainTld(req[r].input.email.val)
        /\ resp[r] # <<>> /\ resp[r][1].status = 400

----------------------------------------------------------------------------
(* C3 *)

\* C3: a verify-payment request whose session_id is absent, empty or not a
\* single string is answered 400 'Session ID is required' without a
\* session-retrieve call; a retrieve call is made only for a non-empty string.
C3_SessionIdRequired ==
    \A r \in Requests :
        OnRoute(r, "/verify-payment")
        => /\ ~Present(req[r].input.session_id)
              => /\ pc[r] = "done"
                 /\ Len(resp[r]) = 1
                 /\ resp[r][1].status = 400
                 /\ resp[r][1].error = <<"Session ID is required">>
                 /\ calls[r] = <<>>
           /\ CallsOf(r, "checkout.sessions.retrieve") # <<>>
              => /\ Present(req[r].input.session_id)
                 /\ CallsOf(r, "checkout.sessions.retrieve")[1].arg.session_id
                        = req[r].input.session_id

\* a verify-payment request with a repeated session_id, answered 400
C3_Witness ==
    \E r \in Requests :
        /\ OnRoute(r, "/verify-payment")
        /\ req[r].input.session_id.type = "array"
        /\ req[r].input.session_id.val # <<>>
        /\ resp[r] # <<>> /\ resp[r][1].status = 400

----------------------------------------------------------------------------
(* C4 *)

\* the currency a checkout is made in: the requested one when it is one of
\* USD, GBP, EUR, CAD, AUD, NGN, and USD otherwise
EffectiveCurrency(c) ==
    IF c \in {Str(<<x>>) : x \in {"USD", "GBP", "EUR", "CAD", "AUD", "NGN"}}
    THEN c
    ELSE Str(<<"USD">>)

\* round(x) = a for x kept in tenths: a is the integer nearest to x, a half
\* going up (JavaScript's Math.round)
IsRounded(a, x10) == 10 * a - 5 <= x10 /\ x10 < 10 * a + 5

\* the session-creation calls request r has started
CreateCalls(r) == CallsOf(r, "checkout.sessions.create")

\* C4: every line item sent to the gateway (cart items and the shipping
\* item) carries the requested currency when it is one of USD, GBP, EUR,
\* CAD, AUD, NGN and USD otherwise; whatever the currency, a request with a
\* cart reaches the gateway and is answered with an error only when the
\* gateway call fails.
C4_CurrencyNormalised ==
    \A r \in Requests :
        OnRoute(r, "/create-checkout-session")
        => /\ \A k \in 1..Len(CreateCalls(r)) :
                  \A i \in 1..Len(CreateCalls(r)[k].arg.line_items) :
                      CreateCalls(r)[k].arg.line_items[i].currency
                          = EffectiveCurrency(req[r].input.currency)
           /\ req[r].input.items.type = "array"
              => /\ Len(CreateCalls(r)) = 1
                 /\ (\E i \in 1..Len(resp[r]) : resp[r][i].status # 200)
                    => SomeCallFailed(r)

\* a checkout in an unsupported currency whose line items went out in USD
C4_Witness ==
    \E r \in Requests :
        /\ OnRoute(r, "/create-checkout-session")
        /\ req[r].input.currency = Str(<<"JPY">>)
        /\ Len(CreateCalls(r)) = 1
        /\ Len(CreateCalls(r)[1].arg.line_items) >= 2
        /\ CreateCalls(r)[1].arg.line_items[1].currency = Str(<<"USD">>)
        /\ resp[r] # <<>> /\ resp[r][1].status = 200

----------------------------------------------------------------------------
(* C5 *)

\* C5: the session-creation call carries items.length + 1 line items: the
\* cart items in their original order, then one last entry named 'Shipping'
\* with quantity 1.
C5_LineItemsCartThenShipping ==
    \A r \in Requests :
        OnRoute(r, "/create-checkout-session")
        => \A k \in 1..Len(CreateCalls(r)) :
               LET sent == CreateCalls(r)[k].arg.line_items
                   items == req[r].input.items.val
               IN  /\ Len(sent) = Len(items) + 1
                   /\ \A i \in 1..Len(items) :
                          /\ sent[i].name = items[i].title
                          /\ sent[i].quantity = items[i].quantity
                          /\ IsRounded(sent[i].unit_amount,
                                       items[i].price10 * req[r].input.currencyMultiplier)
                   /\ sent[Len(sent)].name = "Shipping"
                   /\ sent[Len(sent)].quantity = 1

\* a checkout of two different cart items that reached the gateway
C5_Witness ==
    \E r \in Requests :
        /\ OnRoute(r, "/create-checkout-session")
        /\ Len(CreateCalls(r)) = 1
        /\ Len(req[r].input.items.val) = 2
        /\ req[r].input.items.val[1] # req[r].input.items.val[2]
        /\ Len(CreateCalls(r)[1].arg.line_items) = 3

----------------------------------------------------------------------------
(* C6 *)

\* the shipping rate of the claim, in tenths: 10 for USD, 7.9 for GBP,
\* 15000 for NGN, 10 for every other effective currency
ClaimedRate10(cur) ==
    CASE cur = Str(<<"USD">>) -> 100
      [] cur = Str(<<"GBP">>) -> 79
      [] cur = Str(<<"NGN">>) -> 150000
      [] OTHER -> 100

\* C6: the shipping line's unit amount is round(rate x currencyMultiplier)
\* with rate 10 for USD, 7.9 for GBP, 15000 for NGN and 10 for EUR, CAD, AUD;
\* each cart line's unit amount is round(price x currencyMultiplier); and
\* items=[{price:100, quantity:1}], NGN, multiplier 1 gives shipping 15000
\* and line 1 amount 100.
C6_UnitAmounts ==
    \A r \in Requests :
        OnRoute(r, "/create-checkout-session")
        => \A k \in 1..Len(CreateCalls(r)) :
               LET sent == CreateCalls(r)[k].arg.line_items
                   items == req[r].input.items.val
                   mult == req[r].input.currencyMultiplier
                   cur == EffectiveCurrency(req[r].input.currency)
               IN  /\ Len(sent) >= 1
                   /\ IsRounded(sent[Len(sent)].unit_amount, ClaimedRate10(cur) * mult)
                   /\ \A i \in 1..Len(items) :
                          i < Len(sent) /\ IsRounded(sent[i].unit_amount, items[i].price10 * mult)
                   /\ (/\ Len(items) = 1 /\ items[1].price10 = 1000 /\ items[1].quantity = 1
                       /\ req[r].input.currency = Str(<<"NGN">>) /\ mult = 1)
                      => /\ sent[Len(sent)].unit_amount = 15000
                         /\ sent[1].unit_amount = 100

\* the example of the claim, sent to the gateway and answered
C6_Witness ==
    \E r \in Requests :
        /\ OnRoute(r, "/create-checkout-session")
        /\ pc[r] = "done"
        /\ Len(CreateCalls(r)) = 1
        /\ req[r].input.currency = Str(<<"NGN">>)
        /\ req[r].input.currencyMultiplier = 1
        /\ Len(req[r].input.items.val) = 1
        /\ req[r].input.items.val[1].price10 = 1000
        /\ req[r].input.items.val[1].quantity = 1
        /\ CreateCalls(r)[1].arg.line_items[2].unit_amount = 15000
        /\ CreateCalls(r)[1].arg.line_items[1].unit_amount = 100

----------------------------------------------------------------------------
(* C7 *)

OnMailRoute(r) == OnRoute(r, "/api/contact") \/ OnRoute(r, "/send-receipt")

\* p is an initial part of q
IsPrefix(p, q) == Len(p) <= Len(q) /\ \A i \in 1..Len(p) : p[i] = q[i]

PendingCalls(r) == {i \in 1..Len(calls[r]) : calls[r][i].state = "pending"}

\* C7 as stated: in the contact flow and in the receipt flow the send of
\* the user/customer email begins only after the admin email was sent and
\* awaited. (Fails: the receipt flow sends the customer email first.)
C7_AdminFirstInBothFlows ==
    \A r \in Requests :
        OnMailRoute(r)
        => \A j \in 1..Len(calls[r]) :
               (/\ calls[r][j].op = "sendMail"
                /\ calls[r][j].arg.options \in {"userMailOptions", "customerMailOptions"})
               => \E i \in 1..(j - 1) :
                      /\ calls[r][i].op = "sendMail"
                      /\ calls[r][i].arg.options = "adminMailOptions"
                      /\ calls[r][i].state = "ok"

\* C7 (amended): the two sends of a flow are strictly sequential, the admin
\* email then the user email in the contact flow and the customer email then
\* the admin email in the receipt flow: a call is started only when every
\* earlier call of the request has ended successfully, so no two calls are
\* ever pending together and a failed first send leaves the second unattempted.
C7_SendsSequential ==
    \A r \in Requests :
        OnMailRoute(r)
        => /\ OnRoute(r, "/api/contact")
              => IsPrefix(SendsOf(r), <<"adminMailOptions", "userMailOptions">>)
           /\ OnRoute(r, "/send-receipt")
              => IsPrefix(SendsOf(r), <<"customerMailOptions", "adminMailOptions">>)
           /\ Cardinality(PendingCalls(r)) <= 1
           /\ \A j \in 1..Len(calls[r]) : \A i \in 1..(j - 1) : calls[r][i].state = "ok"

\* a receipt request whose first send, the customer email, failed and whose
\* admin email was never attempted
C7_Witness ==
    \E r \in Requests :
        /\ OnRoute(r, "/send-receipt") /\ pc[r] = "done"
        /\ SendsOf(r) = <<"customerMailOptions">>
        /\ CallsOf(r, "sendMail")[1].state = "failed"

----------------------------------------------------------------------------
(* C8 *)

\* the external calls of a request that ends successfully, by route
FullRun(route) ==
    CASE route = "/api/contact" ->
             <<"createTransport", "verify", "adminMailOptions", "userMailOptions">>
      [] route = "/send-receipt" ->
             <<"createTransport", "customerMailOptions", "adminMailOptions">>
      [] route = "/create-checkout-session" -> <<"checkout.sessions.create">>
      [] route = "/verify-payment" -> <<"checkout.sessions.retrieve">>
      [] OTHER -> <<>>

\* what a call is: its operation, or for a send the mail it sends
CallName(c) == IF c.op = "sendMail" THEN c.arg.options ELSE c.op

\* C8: no retries: within one request no external call (verify, each
\* sendMail, session create, session retrieve) is attempted twice, a request
\* answered 200 has attempted each of its calls exactly once, and once a call
\* has failed the handler starts no further call and ends the request with
\* one error response.
C8_NoRetries ==
    \A r \in Requests :
        /\ \A i, j \in 1..Len(calls[r]) :
               CallName(calls[r][i]) = CallName(calls[r][j]) => i = j
        /\ (\E k \in 1..Len(resp[r]) : resp[r][k].status = 200)
           => /\ Len(calls[r]) = Len(FullRun(req[r].route))
              /\ \A i \in 1..Len(calls[r]) :
                     /\ CallName(calls[r][i]) = FullRun(req[r].route)[i]
                     /\ calls[r][i].state = "ok"
        /\ \A i \in 1..Len(calls[r]) :
               calls[r][i].state = "failed"
               => /\ i = Len(calls[r])
                  /\ pc[r] = "done"
                  /\ Len(resp[r]) = 1
                  /\ resp[r][1].status = 500

\* a contact request whose admin send failed: ended with 500, the send not
\* repeated and the user mail not attempted
C8_Witness ==
    \E r \in Requests :
        /\ OnRoute(r, "/api/contact") /\ pc[r] = "done"
        /\ SendsOf(r) = <<"adminMailOptions">>
        /\ calls[r][Len(calls[r])].state = "failed"
        /\ resp[r] # <<>> /\ resp[r][1].status = 500

----------------------------------------------------------------------------
(* C9 *)

ServiceUnavailable ==
    <<"Email service temporarily unavailable.", "Please try again later.">>

\* C9: when a contact request passes validation with credentials configured
\* and the verify() handshake fails, the handler answers 500 success:false
\* with the generic 'Email service temporarily unavailable. Please try again
\* later.', whatever the error was, and attempts neither send.
C9_VerifyFailureUnavailable ==
    \A r \in Requests :
        (/\ OnRoute(r, "/api/contact")
         /\ CallsOf(r, "verify") # <<>>
         /\ CallsOf(r, "verify")[1].state = "failed")
        => /\ pc[r] = "done"
           /\ Len(resp[r]) = 1
           /\ resp[r][1].status = 500
           /\ resp[r][1].success = "false"
           /\ resp[r][1].error = ServiceUnavailable
           /\ SendsOf(r) = <<>>

\* a verify() that failed with an authentication error, answered with the
\* generic message
C9_Witness ==
    \E r \in Requests :
        /\ OnRoute(r, "/api/contact") /\ pc[r] = "done"
        /\ ValidContact(req[r].input) /\ MailConfigured
        /\ CallsOf(r, "verify") # <<>>
        /\ CallsOf(r, "verify")[1].state = "failed"
        /\ CallsOf(r, "verify")[1].error = Err(<<"EAUTH">>)
        /\ resp[r] # <<>> /\ resp[r][1].error = ServiceUnavailable

----------------------------------------------------------------------------
(* C10 *)

\* the fixed generic messages of the contact handler
GenericMessages ==
    {ServiceUnavailable,
     <<"Email authentication failed.", "Please contact administrator.">>,
     <<"Email authentication failed.", "Please check your email configuration.">>,
     <<"Unable to connect to email server.", "Please try again later.">>,
     <<"Failed to send message.", "Please try again later.">>}

\* the raw text of a thrown value
RawText(e) == IF e.isError THEN e.message ELSE <<"Unknown error occurred">>

\* the call of request r that failed
FailedCall(r) == calls[r][CHOOSE i \in 1..Len(calls[r]) : calls[r][i].state = "failed"]

\* C10 as stated: a downstream failure is answered 500, with a generic
\* message from a fixed set in the contact and receipt handlers and with the
\* raw error message in the checkout and verify handlers. (Fails: the
\* receipt handler returns the raw error message.)
C10_GenericInContactAndReceipt ==
    \A r \in Requests :
        (pc[r] = "done" /\ SomeCallFailed(r))
        => /\ Len(resp[r]) = 1
           /\ resp[r][1].status = 500
           /\ OnMailRoute(r) => resp[r][1].error \in GenericMessages
           /\ ~OnMailRoute(r) => resp[r][1].error = RawText(FailedCall(r).error)

\* C10 (amended): a downstream failure is caught by its handler and answered
\* 500; the error text is a generic message from a fixed set, never the raw
\* error text, in the contact handler only, and is the raw underlying error
\* message ('Unknown error occurred' when what was thrown is no Error) in the
\* checkout, verify and receipt handlers.
C10_ErrorTexts ==
    \A r \in Requests :
        (pc[r] = "done" /\ SomeCallFailed(r))
        => /\ Len(resp[r]) = 1
           /\ resp[r][1].status = 500
           /\ OnRoute(r, "/api/contact")
              => /\ resp[r][1].error \in GenericMessages
                 /\ resp[r][1].error # RawText(FailedCall(r).error)
           /\ ~OnRoute(r, "/api/contact")
              => resp[r][1].error = RawText(FailedCall(r).error)

\* a receipt request whose send failed, answered with the raw error text
C10_Witness ==
    \E r \in Requests :
        /\ OnRoute(r, "/send-receipt") /\ pc[r] = "done"
        /\ SomeCallFailed(r)
        /\ FailedCall(r).error = Err(<<"connect", "ECONNREFUSED">>)
        /\ resp[r] # <<>> /\ resp[r][1].error = <<"connect", "ECONNREFUSED">>

----------------------------------------------------------------------------
(* C12 *)

----------------------------------------------------------------------------
(* C13 *)

\* the handler of request r is suspended at an await
Suspended(r) == pc[r] \notin {"idle", "done"}

\* C13: in the contact and receipt handlers a request is answered exactly
\* once on every path (nothing is written while the handler is suspended,
\* one response when it has ended); success:true is written only after both
\* sends of the request have succeeded; and when the first send succeeds
\* and the second fails the caller gets one 500 failure that carries nothing
\* but the error text, with no further call made for the delivered mail.
C13_OneResponsePartialDelivery ==
    \A r \in Requests :
        OnMailRoute(r)
        => /\ pc[r] = "done" => Len(resp[r]) = 1
           /\ Suspended(r)
              => /\ resp[r] = <<>>
                 /\ PendingCalls(r) = {Len(calls[r])}
           /\ \A k \in 1..Len(resp[r]) :
                  resp[r][k].success = "true"
                  => /\ Len(SendsOf(r)) = 2
                     /\ \A i \in 1..2 : CallsOf(r, "sendMail")[i].state = "ok"
           /\ (/\ Len(SendsOf(r)) = 2
               /\ CallsOf(r, "sendMail")[1].state = "ok"
               /\ CallsOf(r, "sendMail")[2].state = "failed")
              => /\ pc[r] = "done"
                 /\ calls[r][Len(calls[r])].state = "failed"
                 /\ Len(resp[r]) = 1
                 /\ resp[r][1].status = 500
                 /\ resp[r][1].success # "true"
                 /\ resp[r][1].message = <<>>
                 /\ resp[r][1].orderId = Undef
                 /\ resp[r][1].error
                        \in GenericMessages \cup {RawText(FailedCall(r).error)}

\* a contact request whose admin mail was delivered and whose user mail
\* failed, answered 500
C13_Witness ==
    \E r \in Requests :
        /\ OnRoute(r, "/api/contact") /\ pc[r] = "done"
        /\ Len(SendsOf(r)) = 2
        /\ CallsOf(r, "sendMail")[1].state = "ok"
        /\ CallsOf(r, "sendMail")[2].state = "failed"
        /\ resp[r] # <<>> /\ resp[r][1].status = 500

----------------------------------------------------------------------------
(* C11 *)

\* the outcomes of the calls request r has awaited so far, in order
OwnOutcomes(r) ==
    SelectSeq(calls[r], LAMBDA c : c.op # "createTransport" /\ c.state # "pending")

\* a handler run on its own from the state st = [pc, calls, resp], fed the
\* outcomes outs one await after the other
RECURSIVE RunAlone(_, _, _)
RunAlone(input, st, outs) ==
    IF outs = <<>> \/ st.pc = "done"
    THEN st
    ELSE LET step == After(st.pc, input, Head(outs).error, Head(outs).answer)
         IN  RunAlone(input,
                      [pc |-> step.pc,
                       calls |-> SettleAnswered(st.calls, Head(outs).error, Head(outs).answer)
                                     \o step.start,
                       resp |-> st.resp \o step.send],
                      Tail(outs))

\* request r handled alone, with the outcomes its own calls had
HandledAlone(r) ==
    LET first == Entry(req[r].route, req[r].input)
    IN  RunAlone(req[r].input,
                 [pc |-> first.pc, calls |-> first.start, resp |-> first.send],
                 OwnOutcomes(r))

\* what request r sends out comes from its own payload and the environment
OwnData(r) ==
    /\ \A i \in 1..Len(calls[r]) :
           /\ calls[r][i].op = "sendMail"
              => calls[r][i].arg.to \in
                     {OrElse(env.ADMIN_EMAIL, env.EMAIL_USER),
                      IF OnRoute(r, "/api/contact")
                      THEN req[r].input.email
                      ELSE req[r].input.customerEmail}
           /\ calls[r][i].op = "checkout.sessions.retrieve"
              => calls[r][i].arg.session_id = req[r].input.session_id
           /\ calls[r][i].op = "checkout.sessions.create"
              => /\ calls[r][i].arg.items_count = Len(req[r].input.items.val)
                 /\ calls[r][i].arg.original_currency = req[r].input.currency
                 /\ calls[r][i].arg.customer_email = req[r].input.customerEmail
    /\ \A k \in 1..Len(resp[r]) :
           /\ resp[r][k].orderId # Undef
              => OnRoute(r, "/send-receipt") /\ resp[r][k].orderId = req[r].input.orderId
           /\ resp[r][k].session # NoSession
              => /\ calls[r] # <<>>
                 /\ resp[r][k].session.id = calls[r][Len(calls[r])].answer.id

\* C11: requests share no mutable state: however the handlers of
\* concurrent requests interleave at their awaits, each request's position,
\* responses and sequence of external calls are those of the same request
\* handled alone with the same outcomes of its own calls, and what it sends
\* out is made of its own payload and the environment only.
C11_InterleavedAsAlone ==
    \A r \in Requests :
        pc[r] # "idle"
        => /\ [pc |-> pc[r], calls |-> calls[r], resp |-> resp[r]] = HandledAlone(r)
           /\ OwnData(r)

\* two contact requests from different senders, both suspended between
\* their two sends (so their handlers overlap), each mailing its own sender
C11_Witness ==
    \E r, q \in Requests :
        /\ r # q
        /\ OnRoute(r, "/api/contact") /\ OnRoute(q, "/api/contact")
        /\ req[r].input.email # req[q].input.email
        /\ pc[r] = "awaitUserMail" /\ pc[q] = "awaitUserMail"
        /\ calls[r][Len(calls[r])].arg.to = req[r].input.email
        /\ calls[q][Len(calls[q])].arg.to = req[q].input.email

====
